---- MODULE Spec2Model ----
(***************************************************************************)
(* The Chunkatron of src/jQueryPlugins/chunkatron.js: a queue of chunks    *)
(* downloaded by a bounded number of concurrent ajax requests, with a      *)
(* failure counter per chunk key, retry by re-queueing and give-up.        *)
(*                                                                         *)
(* A chunk object is named by its position in the chunk list the caller    *)
(* supplied (or the chunk-list endpoint returned); keyOf[c] is its first   *)
(* element, the key under which its failures are counted.  Each callback   *)
(* jQuery runs (success, error, complete) is one action; the complete      *)
(* callback of a request runs right after its success or error callback,   *)
(* with nothing in between.                                                *)
(*                                                                         *)
(* The form validation of src/data-validate/data-validate.js is a second,  *)
(* independent machine on its own variables (FormSpec): the fields of one  *)
(* form, the validation cache built by rebuildPageValidation and the       *)
(* outcome of the submit handler.                                          *)
(*                                                                         *)
(* Spec and FairSpec are one call with function hooks; HookSpec lets       *)
(* onChunkComplete be a string; SecondSpec adds a second call on the same  *)
(* jQuery object while requests of the first are in flight.                *)
(***************************************************************************)
EXTENDS Integers, Sequences, FiniteSets, TLC

\* Bounds of the model.
MaxChunks == 3
MaxKey == 2
MaxRetries == 1
MaxCap == 2
MaxFields == 2

NULL == "null"

ChunkIds == 1..MaxChunks
Keys == 1..MaxKey

\* Chunk lists: for each length, the first element of every chunk.  First
\* elements are used only as property names of chunkFailures, so a list is
\* taken up to renaming of them: a first element not seen earlier in the
\* list is the next unused key.
ChunkLists ==
    UNION {{l \in [1..n -> Keys] :
              \A i \in 1..n :
                 l[i] <= Cardinality({l[j] : j \in 1..(i - 1)}) + 1}
           : n \in 0..MaxChunks}

Min(a, b) == IF a <= b THEN a ELSE b

VARIABLES
    phase,                \* position of the $.fn.chunkatron call
    settings,             \* this.settings
    keyOf,                \* the chunk objects of the list: first element of each
    chunks,               \* contents of the array this.chunks / settings.chunks
    concurrentDownloads,  \* this.concurrentDownloads
    chunkFailures,        \* this.chunkFailures: key -> number of failures
    inflight,             \* chunk requests issued whose complete callback has not run
    completing,           \* the request whose complete callback runs next
    requests,             \* history: chunk requests issued, per chunk
    calls,                \* history: hook invocations
    fetches,              \* history: chunk-list fetches issued
    earlier,              \* chunks listed by an earlier call on the same object
    fields,               \* the input and select elements of the form, in document order
    validationCache,      \* dataValidateControl.validationCache[formId]: name -> element
    page,                 \* "loading" until the document-ready callback has run
    submitted             \* outcome of the latest submit of the form

chunkVars == <<phase, settings, keyOf, chunks, concurrentDownloads, chunkFailures,
               inflight, completing, requests, calls, fetches, earlier>>

formVars == <<fields, validationCache, page, submitted>>

vars == <<chunkVars, formVars>>

Zero == [c \in ChunkIds |-> 0]

\* No hook has been invoked.  Next to the tallies of the hooks, capReturns
\* counts the downloadChunk calls that returned at the cap test, thrown the
\* 'The callback must be a function' errors raised by callback, and saw is
\* what the latest onChunkComplete invocation found: idle is the number of
\* download cycles that, by concurrentDownloads and the onFinished calls made
\* so far, neither wait for a response nor have ended.
NoCalls ==
    [onChunkSuccess |-> Zero, onChunkError |-> Zero, onChunkGiveUp |-> Zero,
     onChunkComplete |-> 0, onFinished |-> 0, capReturns |-> 0,
     thrown |-> 0, saw |-> [idle |-> 0]]

RECURSIVE SumTo(_, _)
SumTo(f, n) == IF n = 0 THEN 0 ELSE f[n] + SumTo(f, n - 1)

\* Total of a per-chunk tally.
Total(f) == SumTo(f, MaxChunks)

\* The test of callback that ends in the throw: the hook is neither a
\* function nor null.
throws(hook) == settings[hook] \notin {NULL, "function"}

\* this.callback with a per-chunk tally: a null hook is skipped.
callbackFor(tally, hook, c) ==
    IF settings[hook] = "function"
    THEN [tally EXCEPT ![hook][c] = @ + 1]
    ELSE tally

\* this.callback with a plain tally.
callback(tally, hook) ==
    IF settings[hook] = "function"
    THEN [tally EXCEPT ![hook] = @ + 1]
    ELSE tally

\* Mutant: verifySettings does not test the required url.
verifySettingsNoUrl(s) ==
    \/ s.onChunkComplete = NULL
    \/ (s.chunks = NULL /\ s.chunksUrl = NULL)

\* Mutant: verifySettings does not test the chunk source.
verifySettingsNoSource(s) ==
    \/ s.url = NULL
    \/ s.onChunkComplete = NULL

\* Mutant: verifySettings rejects an onChunkComplete that is no function.
verifySettingsTyped(s) ==
    \/ s.url = NULL
    \/ s.onChunkComplete # "function"
    \/ (s.chunks = NULL /\ s.chunksUrl = NULL)

\* verifySettings: TRUE when it throws.
verifySettings(s) ==
    \/ s.url = NULL
    \/ s.onChunkComplete = NULL
    \/ (s.chunks = NULL /\ s.chunksUrl = NULL)

\* Mutant: give up as soon as the counter reaches the ceiling.
exceedsRetriesAtCeiling(failures, key, maxRetries) ==
    key \in DOMAIN failures /\ failures[key] >= maxRetries

\* Mutant: give up one failure late.
exceedsRetriesLate(failures, key, maxRetries) ==
    key \in DOMAIN failures /\ failures[key] > maxRetries + 1

\* The give-up test of downloadChunk: undefined > n is false.
exceedsRetries(failures, key, maxRetries) ==
    key \in DOMAIN failures /\ failures[key] > maxRetries

\* Mutant: the cap test rejects one request early.
atCapOffByOne(n, max) == n + 1 >= max

\* The cap test of downloadChunk.
atCap(n, max) == n >= max

\* Mutant: the queue counts as exhausted while one chunk is left.
noChunkOffByOne(queue) == Len(queue) <= 1

\* currentChunk == null after the shift: shift on an empty array returns
\* undefined and leaves the array empty.
noChunk(queue) == queue = <<>>

\* The scheduler fields downloadChunk reads and writes, as one record.
Sched ==
    [chunks |-> chunks, concurrentDownloads |-> concurrentDownloads,
     chunkFailures |-> chunkFailures, keyOf |-> keyOf,
     inflight |-> inflight, requests |-> requests, calls |-> calls]

\* The request branch of downloadChunk: count it and issue the ajax call.
issue(s, currentChunk) ==
    [s EXCEPT !.concurrentDownloads = @ + 1,
              !.inflight = @ \cup {currentChunk},
              !.requests[currentChunk] = @ + 1]

\* The empty-queue branch of downloadChunk.
finished(s) == [s EXCEPT !.calls = callback(@, "onFinished")]

RECURSIVE downloadChunk(_)
downloadChunk(s) ==
    IF atCap(s.concurrentDownloads, settings.concurrentDownloadsMax)
    THEN [s EXCEPT !.calls.capReturns = @ + 1]
    ELSE IF noChunk(s.chunks) THEN finished(s)
    ELSE LET currentChunk == Head(s.chunks)
             t == [s EXCEPT !.chunks = Tail(@)]
         IN  IF exceedsRetries(s.chunkFailures, s.keyOf[currentChunk],
                               settings.maxDownloadRetries)
             THEN downloadChunk(
                    [t EXCEPT !.calls = callbackFor(@, "onChunkGiveUp", currentChunk)])
             ELSE issue(t, currentChunk)

\* The loop of start: i calls of downloadChunk.
RECURSIVE startLoop(_, _)
startLoop(s, i) == IF i = 0 THEN s ELSE startLoop(downloadChunk(s), i - 1)

\* Mutant: the startup loop makes one call more than the cap.
startLong(s) == startLoop(s, settings.concurrentDownloadsMax + 1)

\* start, applied to the scheduler record.
start(s) == startLoop(s, settings.concurrentDownloadsMax)

\* Write a scheduler record back to the variables.
Store(s) ==
    /\ chunks' = s.chunks
    /\ concurrentDownloads' = s.concurrentDownloads
    /\ inflight' = s.inflight
    /\ requests' = s.requests
    /\ calls' = s.calls

\* A page without a form: the state of the form variables in the runs of
\* the Chunkatron.
NoForm ==
    /\ fields = <<>>
    /\ validationCache = <<>>
    /\ page = "loading"
    /\ submitted = "none"

\* The settings after $.extend(defaultOptions, overrides).  settings.chunks
\* is null or refers to the array whose contents are the variable chunks.
\* The optional hooks are supplied, so that every invocation point is
\* counted in calls; a chunk list holds chunk arrays only, and the retry
\* ceiling and the cap are counts (>= 0 and >= 1).
Settings ==
    [url : {NULL, "url"},
     onChunkComplete : {NULL, "function"},
     chunks : {NULL, "array"},
     chunksUrl : {NULL, "chunksUrl"},
     onChunkSuccess : {"function"},
     onChunkError : {"function"},
     onChunkGiveUp : {"function"},
     onFinished : {"function"},
     maxDownloadRetries : 0..MaxRetries,
     concurrentDownloadsMax : 1..MaxCap]

\* The state after the fields of the object are set, for the settings of a set.
InitOver(supplied) ==
    /\ phase = "new"
    /\ settings \in supplied
    /\ keyOf \in ChunkLists
    /\ (settings.chunks = NULL => keyOf = <<>>)
    /\ chunks = [i \in 1..Len(keyOf) |-> i]
    /\ concurrentDownloads = 0
    /\ chunkFailures = <<>>
    /\ inflight = {}
    /\ completing = {}
    /\ requests = Zero
    /\ calls = NoCalls
    /\ fetches = 0
    /\ earlier = {}
    /\ NoForm

Init == InitOver(Settings)

\* Settings whose onChunkComplete is a function or a string.
HookSettings ==
    {[s EXCEPT !.onChunkComplete = h] : s \in Settings, h \in {"function", "string"}}

HookInit == InitOver(HookSettings)

\* Mutant: the chunk list is fetched whenever a chunksUrl is given.
fetchesChunksAlways(s) == s.chunksUrl # NULL

\* The test that sends the call to the chunk-list fetch instead of start.
fetchesChunks(s) == s.chunks = NULL /\ s.chunksUrl # NULL

\* The body of $.fn.chunkatron.
Chunkatron ==
    /\ UNCHANGED <<formVars, earlier>>
    /\ phase = "new"
    /\ UNCHANGED <<settings, keyOf, chunkFailures, completing>>
    /\ IF verifySettings(settings)
       THEN /\ phase' = "threw"
            /\ UNCHANGED <<chunks, concurrentDownloads, inflight, requests, calls, fetches>>
       ELSE IF fetchesChunks(settings)
       THEN /\ phase' = "fetching"
            /\ fetches' = fetches + 1
            /\ UNCHANGED <<chunks, concurrentDownloads, inflight, requests, calls>>
       ELSE /\ phase' = "running"
            /\ Store(start(Sched))
            /\ UNCHANGED fetches

\* Mutant: the fetched list is stored but start is not called.
FetchSuccessNoStart(data) ==
    /\ UNCHANGED <<formVars, earlier>>
    /\ phase = "fetching"
    /\ phase' = "running"
    /\ settings' = [settings EXCEPT !.chunks = "array"]
    /\ keyOf' = data
    /\ chunks' = [i \in 1..Len(data) |-> i]
    /\ UNCHANGED <<concurrentDownloads, inflight, requests, calls,
                   chunkFailures, completing, fetches>>

\* Mutant: the success callback also clears settings.chunksUrl.
FetchSuccessClearsUrl(data) ==
    /\ UNCHANGED <<formVars, earlier>>
    /\ phase = "fetching"
    /\ phase' = "running"
    /\ settings' = [settings EXCEPT !.chunks = "array", !.chunksUrl = NULL]
    /\ keyOf' = data
    /\ Store(start([Sched EXCEPT !.keyOf = data,
                                 !.chunks = [i \in 1..Len(data) |-> i]]))
    /\ UNCHANGED <<chunkFailures, completing, fetches>>

\* success callback of the chunk-list fetch.
FetchSuccess(data) ==
    /\ UNCHANGED <<formVars, earlier>>
    /\ phase = "fetching"
    /\ phase' = "running"
    /\ settings' = [settings EXCEPT !.chunks = "array"]
    /\ keyOf' = data
    /\ Store(start([Sched EXCEPT !.keyOf = data,
                                 !.chunks = [i \in 1..Len(data) |-> i]]))
    /\ UNCHANGED <<chunkFailures, completing, fetches>>

\* error callback of the chunk-list fetch.
FetchError ==
    /\ UNCHANGED <<formVars, earlier>>
    /\ phase = "fetching"
    /\ phase' = "fetchFailed"
    /\ UNCHANGED <<settings, keyOf, chunks, concurrentDownloads, chunkFailures,
                   inflight, completing, requests, calls, fetches>>

\* success callback of the request for chunk c.
Success(c) ==
    /\ UNCHANGED <<formVars, earlier>>
    /\ phase = "running"
    /\ completing = {}
    /\ c \in inflight
    /\ calls' = callbackFor(calls, "onChunkSuccess", c)
    /\ completing' = {[chunk |-> c, status |-> "success"]}
    /\ UNCHANGED <<phase, settings, keyOf, chunks, concurrentDownloads,
                   chunkFailures, inflight, requests, fetches>>

\* Mutant: the first failure of a key is recorded as 0.
recordFailureFromZero(failures, key) ==
    IF key \in DOMAIN failures
    THEN [failures EXCEPT ![key] = @ + 1]
    ELSE [k \in DOMAIN failures \cup {key} |->
            IF k = key THEN 0 ELSE failures[k]]

\* The failure record of the error callback.
recordFailure(failures, key) ==
    IF key \in DOMAIN failures
    THEN [failures EXCEPT ![key] = @ + 1]
    ELSE [k \in DOMAIN failures \cup {key} |->
            IF k = key THEN 1 ELSE failures[k]]

\* Mutant: the error callback does not put the chunk back.
requeueDropped(queue, c) == queue

\* Mutant: the failed chunk goes to the front of the queue.
requeueFront(queue, c) == <<c>> \o queue

\* self.chunks.push(currentChunk) of the error callback.
requeue(queue, c) == Append(queue, c)

\* error callback of the request for chunk c.
Error(c) ==
    /\ UNCHANGED <<formVars, earlier>>
    /\ phase = "running"
    /\ completing = {}
    /\ c \in inflight
    /\ chunkFailures' = recordFailure(chunkFailures, keyOf[c])
    /\ chunks' = requeue(chunks, c)
    /\ calls' = callbackFor(calls, "onChunkError", c)
    /\ completing' = {[chunk |-> c, status |-> "error"]}
    /\ UNCHANGED <<phase, settings, keyOf, concurrentDownloads, inflight,
                   requests, fetches>>

\* onChunkComplete is invoked while concurrentDownloads has value counter.
invokeOnChunkComplete(tally, counter) ==
    [callback(tally, "onChunkComplete") EXCEPT
        !.saw = [idle |-> settings.concurrentDownloadsMax - counter
                             - tally.onFinished]]

\* Mutant: the complete callback forgets to decrement the counter.
completedNoDecrement(s, c) ==
    [s EXCEPT !.inflight = @ \ {c},
              !.calls = invokeOnChunkComplete(@, s.concurrentDownloads)]

\* Mutant: the counter is decremented after the hook has run.
completedHookFirst(s, c) ==
    [s EXCEPT !.calls = invokeOnChunkComplete(@, s.concurrentDownloads),
              !.concurrentDownloads = @ - 1,
              !.inflight = @ \ {c}]

\* The first two statements of the complete callback: the counter is
\* decremented (the request is over), then onChunkComplete is invoked.
completed(s, c) ==
    [s EXCEPT !.concurrentDownloads = @ - 1,
              !.inflight = @ \ {c},
              !.calls = invokeOnChunkComplete(@, s.concurrentDownloads - 1)]

\* The complete callback when callback throws on onChunkComplete: the
\* decrement has been done, the statements after the throw are not reached.
completedThrowing(s, c) ==
    [s EXCEPT !.concurrentDownloads = @ - 1,
              !.inflight = @ \ {c},
              !.calls.thrown = @ + 1]

\* complete callback of a request.
Complete ==
    /\ UNCHANGED <<formVars, earlier>>
    /\ completing # {}
    /\ \E r \in completing :
          IF throws("onChunkComplete")
          THEN Store(completedThrowing(Sched, r.chunk))
          ELSE Store(downloadChunk(completed(Sched, r.chunk)))
    /\ completing' = {}
    /\ UNCHANGED <<phase, settings, keyOf, chunkFailures, fetches>>

Next ==
    \/ Chunkatron
    \/ \E data \in ChunkLists : FetchSuccess(data)
    \/ FetchError
    \/ \E c \in ChunkIds : Success(c)
    \/ \E c \in ChunkIds : Error(c)
    \/ Complete

Spec == Init /\ [][Next]_vars

\* The chunk lists a second call can supply.
SecondLists == UNION {[1..n -> Keys] : n \in 1..(MaxChunks - 1)}

\* $.fn.chunkatron is called again on the same jQuery object while requests
\* of the running call are in flight, with a chunk list of its own and the
\* same cap and retry ceiling.  The call replaces settings, resets
\* concurrentDownloads and chunkFailures, and start replaces this.chunks by
\* the new list; the requests in flight keep their handlers, which act on
\* the same object.
SecondCall(overrides, data) ==
    /\ UNCHANGED formVars
    /\ phase = "running"
    /\ completing = {}
    /\ inflight # {}
    /\ earlier = {}
    /\ Len(keyOf) + Len(data) <= MaxChunks
    /\ ~verifySettings(overrides)
    /\ ~fetchesChunks(overrides)
    /\ overrides.concurrentDownloadsMax = settings.concurrentDownloadsMax
    /\ overrides.maxDownloadRetries = settings.maxDownloadRetries
    /\ settings' = overrides
    /\ chunkFailures' = <<>>
    /\ keyOf' = keyOf \o data
    /\ earlier' = DOMAIN keyOf
    /\ Store(start([Sched EXCEPT
                      !.concurrentDownloads = 0,
                      !.chunkFailures = <<>>,
                      !.keyOf = keyOf \o data,
                      !.chunks = [i \in 1..Len(data) |-> Len(keyOf) + i]]))
    /\ UNCHANGED <<phase, completing, fetches>>

SecondNext ==
    \/ Next
    \/ \E overrides \in Settings : \E data \in SecondLists :
          SecondCall(overrides, data)

\* A call whose onChunkComplete may be a string.
HookSpec == HookInit /\ [][Next]_vars

\* One call followed by at most one more call on the same object.
SecondSpec == Init /\ [][SecondNext]_vars

\* Every call is made, every issued request gets its response, and jQuery
\* runs the complete callback after the success or error callback.
FairSpec ==
    /\ Spec
    /\ WF_vars(Chunkatron)
    /\ WF_vars(FetchError \/ \E data \in ChunkLists : FetchSuccess(data))
    /\ \A c \in ChunkIds : WF_vars(Success(c) \/ Error(c))
    /\ WF_vars(Complete)

----------------------------------------------------------------------------
\* The form validation of data-validate.js.

FieldIds == 1..MaxFields

\* An input or select element of the form.  name 0 stands for no name
\* attribute.  validate is the data-validate attribute: "none" when the
\* element has none, else a validation string naming a type, with or
\* without the word optional.  value is the element's value by what the
\* type test makes of it: empty, passing ("ok") or failing and not empty.
Field ==
    [tag : {"input", "select"},
     name : 0..MaxFields,
     validate : {"none", "required", "optional"},
     disabled : BOOLEAN,
     value : {"", "ok", "bad"}]

\* The forms of the model: up to MaxFields elements; names are taken up to
\* renaming, a name not used earlier in the form being the next unused one.
Forms ==
    UNION {{f \in [1..n -> Field] :
              \A i \in 1..n :
                 f[i].name <= Cardinality({f[j].name : j \in 1..(i - 1)} \ {0}) + 1}
           : n \in 0..MaxFields}

\* getRules: the rules of a validation string; the type is always one.
getRules(f) == {"type"}

\* isOptional.
isOptional(f) == f.validate = "optional"

\* The test of a rule in validationInformation: every type test fails on
\* the empty string.
ruleTest(rule, value) == value = "ok"

\* Validator.prototype.validate on the element's present state.
validate(f, rule) ==
    IF f.disabled THEN TRUE
    ELSE IF isOptional(f) /\ f.value = "" THEN TRUE
    ELSE ruleTest(rule, f.value)

\* Validator.prototype.validateAll.
validateAll(f) == \A rule \in getRules(f) : validate(f, rule)

\* The elements rebuildPageValidation makes a Validator for:
\* input[data-validate][name], select[data-validate][name].
cached(f) == f.validate # "none" /\ f.name # 0

\* The elements the submit handler visits: input[data-validate].
visited(f) == f.tag = "input" /\ f.validate # "none"

\* rebuildPageValidation for the form: validationCache[formId][name] is the
\* Validator of the last element with that name.
rebuildPageValidation(fs) ==
    [n \in {fs[i].name : i \in {j \in DOMAIN fs : cached(fs[j])}} |->
        CHOOSE i \in DOMAIN fs :
            /\ cached(fs[i])
            /\ fs[i].name = n
            /\ \A j \in DOMAIN fs : cached(fs[j]) /\ fs[j].name = n => j <= i]

\* The $.each loop of the submit handler from element i on: the handler's
\* outcome.  Reading validateAll of a missing cache entry is a TypeError,
\* which leaves the submit event uncancelled.
RECURSIVE submitLoop(_, _, _, _)
submitLoop(fs, cache, i, formValid) ==
    IF i > Len(fs) THEN (IF formValid THEN "sent" ELSE "blocked")
    ELSE IF ~visited(fs[i]) THEN submitLoop(fs, cache, i + 1, formValid)
    ELSE IF fs[i].name \notin DOMAIN cache THEN "threw"
    ELSE submitLoop(fs, cache, i + 1,
                    formValid /\ validateAll(fs[cache[fs[i].name]]))

\* The submit handler of the form.
submitHandler(fs, cache) == submitLoop(fs, cache, 1, TRUE)

\* The Chunkatron is not called in the runs of the form.
NoChunkatron ==
    /\ phase = "new"
    /\ settings = [url |-> NULL, onChunkComplete |-> NULL, chunks |-> NULL,
                   chunksUrl |-> NULL, onChunkSuccess |-> "function",
                   onChunkError |-> "function", onChunkGiveUp |-> "function",
                   onFinished |-> "function", maxDownloadRetries |-> 0,
                   concurrentDownloadsMax |-> 1]
    /\ keyOf = <<>>
    /\ chunks = <<>>
    /\ concurrentDownloads = 0
    /\ chunkFailures = <<>>
    /\ inflight = {}
    /\ completing = {}
    /\ requests = Zero
    /\ calls = NoCalls
    /\ fetches = 0
    /\ earlier = {}

FormInit ==
    /\ NoChunkatron
    /\ fields \in Forms
    /\ \A i \in DOMAIN fields : fields[i].value = ""
    /\ validationCache = <<>>
    /\ page = "loading"
    /\ submitted = "none"

\* The document-ready callback: rebuildPageValidation, then the submit
\* handler is bound.
Ready ==
    /\ page = "loading"
    /\ submitted = "none"
    /\ page' = "ready"
    /\ validationCache' = rebuildPageValidation(fields)
    /\ UNCHANGED <<fields, submitted, chunkVars>>

\* The user changes the value of element i.
SetValue(i, v) ==
    /\ submitted \in {"none", "blocked"}
    /\ i \in DOMAIN fields
    /\ fields[i].value # v
    /\ fields' = [fields EXCEPT ![i].value = v]
    /\ submitted' = "none"
    /\ UNCHANGED <<validationCache, page, chunkVars>>

\* The user submits the form; without a handler the form is sent.
Submit ==
    /\ submitted = "none"
    /\ submitted' = IF page = "ready"
                    THEN submitHandler(fields, validationCache)
                    ELSE "sent"
    /\ UNCHANGED <<fields, validationCache, page, chunkVars>>

FormNext ==
    \/ Ready
    \/ \E i \in FieldIds, v \in {"", "ok", "bad"} : SetValue(i, v)
    \/ Submit

FormSpec == FormInit /\ [][FormNext]_vars

----------------------------------------------------------------------------
\* Vocabulary of the properties.

\* The chunks of the list being downloaded.
Listed == DOMAIN keyOf

\* The first element of chunk c differs from that of every other chunk.
UniqueKey(c) ==
    c \in Listed /\ \A d \in Listed \ {c} : keyOf[d] # keyOf[c]

InQueue(c) == \E i \in DOMAIN chunks : chunks[i] = c

\* Number of times chunk c occurs in a queue.
Occurrences(queue, c) == Cardinality({i \in DOMAIN queue : queue[i] = c})

\* The failure counter stored under the first element of chunk c exceeds
\* maxDownloadRetries.
Exceeded(c) ==
    /\ c \in Listed
    /\ keyOf[c] \in DOMAIN chunkFailures
    /\ chunkFailures[keyOf[c]] > settings.maxDownloadRetries

\* Empty queue and nothing in flight.
Drained == phase = "running" /\ chunks = <<>> /\ inflight = {}

\* The error callback of the request for chunk c has just run.
JustErrored(c) == completing = {[chunk |-> c, status |-> "error"]}

\* The run never starts: the call threw or the chunk-list fetch failed.
Aborted == phase \in {"threw", "fetchFailed"}

----------------------------------------------------------------------------
\* C1: in every reachable state the in-flight counter lies between 0 and
\* concurrentDownloadsMax and equals the number of chunk requests issued
\* and not yet completed.
C1_InFlightCounter ==
    /\ 0 <= concurrentDownloads
    /\ concurrentDownloads <= settings.concurrentDownloadsMax
    /\ concurrentDownloads = Cardinality(inflight)
    /\ phase = "running" =>
         concurrentDownloads = Total(requests) - calls.onChunkComplete

\* C1 witness: the cap is reached again after a request completed, with a
\* chunk still waiting.
C1_Witness ==
    /\ concurrentDownloads = settings.concurrentDownloadsMax
    /\ concurrentDownloads = MaxCap
    /\ calls.onChunkComplete > 0
    /\ chunks # <<>>

\* C2: a chunk whose first element no other chunk shares and whose requests
\* all end in error is requested exactly maxDownloadRetries + 1 times, is
\* then passed to onChunkGiveUp, and is never requested after that.
C2_GiveUpAfterRetries ==
    /\ [](\A c \in ChunkIds :
            UniqueKey(c) /\ calls.onChunkSuccess[c] = 0 =>
                /\ requests[c] <= settings.maxDownloadRetries + 1
                /\ calls.onChunkGiveUp[c] <= 1
                /\ calls.onChunkGiveUp[c] = 1 =>
                     /\ requests[c] = settings.maxDownloadRetries + 1
                     /\ calls.onChunkError[c] = settings.maxDownloadRetries + 1)
    /\ [][\A c \in ChunkIds :
            UniqueKey(c) /\ calls.onChunkGiveUp[c] > 0 =>
                requests'[c] = requests[c]]_vars
    /\ <>(\/ Aborted
          \/ /\ phase = "running"
             /\ \A c \in ChunkIds :
                   \/ ~UniqueKey(c)
                   \/ calls.onChunkSuccess[c] > 0
                   \/ calls.onChunkGiveUp[c] = 1)

\* C2 witness: with maxDownloadRetries = 1, a chunk with a first element of
\* its own was given up after two failed requests, another chunk sharing the run.
C2_Witness ==
    \E c \in ChunkIds :
        /\ UniqueKey(c)
        /\ Cardinality(Listed) > 1
        /\ settings.maxDownloadRetries = 1
        /\ calls.onChunkSuccess[c] = 0
        /\ calls.onChunkError[c] = 2
        /\ requests[c] = 2
        /\ calls.onChunkGiveUp[c] = 1

\* C3: in a run over directly supplied chunks in which every request
\* succeeds, onFinished is not invoked before every chunk has had its
\* onChunkSuccess and its onChunkComplete.
C3_FinishedAfterAllChunks ==
    (/\ phase = "running"
     /\ fetches = 0
     /\ Total(calls.onChunkError) = 0
     /\ calls.onFinished > 0)
    => /\ \A c \in Listed : calls.onChunkSuccess[c] = 1
       /\ calls.onChunkComplete = Cardinality(Listed)

AwaitingRetry(c) ==
    /\ calls.onChunkError[c] >= 1
    /\ calls.onChunkError[c] < settings.maxDownloadRetries + 1
    /\ requests[c] = calls.onChunkError[c]

C6_FinishedOnlyWhenEmpty ==
    [][calls'.onFinished # calls.onFinished => chunks' = <<>>]_vars

\* C6 witness: onFinished has been invoked in a run that had chunks to queue
\* and re-queued one of them.
C6_Witness ==
    /\ calls.onFinished > 0
    /\ Cardinality(Listed) > 1
    /\ Total(calls.onChunkError) > 0

\* C7: every run that starts reaches an empty queue with nothing in flight
\* and stays there; in that state every chunk of the list has had exactly
\* one of a successful response and a give-up; no request is issued after.
C7_RunsToCompletion ==
    /\ <>[](Aborted \/ Drained)
    /\ [](Drained =>
            \A c \in Listed : calls.onChunkSuccess[c] + calls.onChunkGiveUp[c] = 1)
    /\ [][Drained => requests' = requests]_vars

\* C7 witness: a drained run of three chunks in which one chunk succeeded
\* after a failure and another was given up.
C7_Witness ==
    /\ Drained
    /\ Cardinality(Listed) = 3
    /\ \E c \in Listed : calls.onChunkSuccess[c] = 1 /\ calls.onChunkError[c] > 0
    /\ \E c \in Listed : calls.onChunkGiveUp[c] = 1

\* C8: a call without url or without onChunkComplete throws before any
\* request (chunk or chunk list) is issued and before any hook is invoked.
C8_RequiredSettings ==
    (phase # "new" /\ (settings.url = NULL \/ settings.onChunkComplete = NULL))
    => /\ phase = "threw"
       /\ fetches = 0
       /\ requests = Zero
       /\ calls = NoCalls
       /\ inflight = {}

\* C8 witness: the call threw for a missing url although chunks were supplied.
C8_Witness ==
    /\ phase = "threw"
    /\ settings.url = NULL
    /\ settings.onChunkComplete # NULL
    /\ settings.chunks # NULL
    /\ Listed # {}

\* C9: a call with url and onChunkComplete but with neither chunks nor
\* chunksUrl throws before any request is issued and any hook is invoked.
C9_ChunkSourceRequired ==
    (/\ phase # "new"
     /\ settings.url # NULL
     /\ settings.onChunkComplete # NULL
     /\ settings.chunks = NULL
     /\ settings.chunksUrl = NULL)
    => /\ phase = "threw"
       /\ fetches = 0
       /\ requests = Zero
       /\ calls = NoCalls
       /\ inflight = {}

\* C9 witness: the call threw with both required settings present.
C9_Witness ==
    /\ phase = "threw"
    /\ settings.url # NULL
    /\ settings.onChunkComplete # NULL
    /\ settings.chunks = NULL
    /\ settings.chunksUrl = NULL

\* The state in which start leaves the scheduler for a list of n chunks.
AfterStartup(n) ==
    LET k == Min(n, settings.concurrentDownloadsMax)
    IN  /\ chunks' = [i \in 1..(n - k) |-> k + i]
        /\ inflight' = 1..k
        /\ concurrentDownloads' = k
        /\ requests' = [c \in ChunkIds |-> IF c <= k THEN 1 ELSE 0]
        /\ calls' = [NoCalls EXCEPT
                       !.onFinished = settings.concurrentDownloadsMax - k]

\* C10: with only chunksUrl supplied nothing is requested and no hook is
\* invoked until the chunk-list fetch succeeds; its success queues the
\* returned list and runs the startup fan-out; after its failure the fetch
\* is not repeated and nothing is requested or invoked any more.
C10_ChunkListFetch ==
    /\ [](phase \in {"fetching", "fetchFailed"} =>
            /\ fetches = 1
            /\ requests = Zero
            /\ calls = NoCalls
            /\ inflight = {}
            /\ chunks = <<>>)
    /\ [](fetches <= 1)
    /\ [][/\ phase # "fetchFailed"
          /\ phase = "fetching" /\ phase' = "running" =>
               /\ settings'.chunks # NULL
               /\ AfterStartup(Len(keyOf'))]_vars

\* C10 witness: a fetched list longer than the cap is being downloaded.
C10_Witness ==
    /\ phase = "running"
    /\ fetches = 1
    /\ Cardinality(Listed) > settings.concurrentDownloadsMax
    /\ chunks # <<>>
    /\ concurrentDownloads = settings.concurrentDownloadsMax

\* C10 witness of the failure case.
C10_WitnessFailed == phase = "fetchFailed" /\ fetches = 1

\* C11: when the submit handler of a registered form has run and some element
\* with a Validator in the validation cache fails validateAll, the handler
\* has returned false (the form is not sent); the form is sent only when
\* all of them pass.
C11_SubmitChecksEveryValidator ==
    (/\ page = "ready"
     /\ submitted # "none"
     /\ \E n \in DOMAIN validationCache :
           ~validateAll(fields[validationCache[n]]))
    => submitted = "blocked"

\* C12: whenever onFinished is invoked, the queue is empty, no request is
\* in flight, and every chunk of the list has been reported to
\* onChunkSuccess or to onChunkGiveUp.
C12_FinishedMeansAllDealtWith ==
    [][calls'.onFinished # calls.onFinished =>
         /\ chunks' = <<>>
         /\ inflight' = {}
         /\ \A c \in DOMAIN keyOf' :
               calls'.onChunkSuccess[c] + calls'.onChunkGiveUp[c] >= 1]_vars

\* C13: between two handlers of a run, while chunks are still queued the
\* number of requests in flight equals concurrentDownloadsMax.
C13_CapSaturated ==
    (phase = "running" /\ completing = {} /\ chunks # <<>>) =>
        /\ concurrentDownloads = settings.concurrentDownloadsMax
        /\ Cardinality(inflight) = settings.concurrentDownloadsMax

\* C13 witness: a failed chunk waits in the queue behind a full set of
\* requests, after some request has already completed.
C13_Witness ==
    /\ phase = "running"
    /\ completing = {}
    /\ chunks # <<>>
    /\ settings.concurrentDownloadsMax = MaxCap
    /\ Cardinality(inflight) = MaxCap
    /\ calls.onChunkComplete >= 1
    /\ \E c \in Listed : InQueue(c) /\ calls.onChunkError[c] >= 1

\* Number of responses whose success or error callback has run.
Responses == Total(calls.onChunkSuccess) + Total(calls.onChunkError)

\* Chunks whose request got its response but not yet its complete callback.
Completing == {r.chunk : r \in completing}

\* C14 as stated: at any time the number of onChunkComplete invocations,
\* the number of onChunkSuccess plus onChunkError invocations and the number
\* of completed requests are equal.
C14_Original ==
    /\ calls.onChunkComplete = Responses
    /\ calls.onChunkComplete = Total(requests) - Cardinality(inflight)

\* C14, amended: every request gets at most one of onChunkSuccess and
\* onChunkError and, after it, one onChunkComplete; onChunkComplete finds the
\* counter already decremented and the replacement request not yet issued.
\* The number of onChunkComplete invocations equals the number of completed
\* requests at any time, and equals the number of onChunkSuccess plus
\* onChunkError invocations except between a response's success or error
\* callback and its complete callback, where it is one behind.
C14_OneResponseOneComplete ==
    /\ [](/\ Cardinality(completing) <= 1
          /\ Completing \subseteq inflight
          /\ Responses = calls.onChunkComplete + Cardinality(completing)
          /\ calls.onChunkComplete = Total(requests) - Cardinality(inflight)
          /\ \A c \in ChunkIds :
                calls.onChunkSuccess[c] + calls.onChunkError[c] =
                    requests[c] - (IF c \in inflight \ Completing THEN 1 ELSE 0))
    /\ [][/\ Responses' # Responses =>
               /\ completing = {}
               /\ Responses' = Responses + 1
               /\ Cardinality(completing') = 1
               /\ calls'.onChunkComplete = calls.onChunkComplete
          /\ calls'.onChunkComplete # calls.onChunkComplete =>
               /\ completing # {} /\ completing' = {}
               /\ Responses' = Responses
               /\ calls'.onChunkComplete = calls.onChunkComplete + 1
               /\ calls'.saw.idle =
                     settings.concurrentDownloadsMax
                         - (concurrentDownloads - 1) - calls.onFinished]_vars

\* C14 witness: a success and an error have both been followed by their
\* complete callback, and the replacement request has been issued.
C14_Witness ==
    /\ completing = {}
    /\ Total(calls.onChunkSuccess) >= 1
    /\ Total(calls.onChunkError) >= 1
    /\ calls.onChunkComplete = Responses
    /\ calls.saw.idle = 1
    /\ Total(requests) > Responses

\* Chunk c is taken from the queue in this step: requested or given up.
Dequeued(c) ==
    \/ requests'[c] # requests[c]
    \/ calls'.onChunkGiveUp[c] # calls.onChunkGiveUp[c]

\* C15: the error callback of chunk c puts c behind every queued chunk;
\* every other step of a run takes the chunks it requests or gives up from
\* the front of the queue and leaves the rest in place, so c is not
\* requested again before the chunks queued ahead of it were dequeued; no
\* chunk gets its first request before the chunks listed ahead of it were
\* dequeued.
C15_FifoOrder ==
    /\ [][phase = "running" =>
            \/ \E c \in Listed :
                  /\ calls'.onChunkError[c] = calls.onChunkError[c] + 1
                  /\ chunks' = Append(chunks, c)
                  /\ \A d \in Listed : ~Dequeued(d)
            \/ \E n \in 0..Len(chunks) :
                  /\ calls'.onChunkError = calls.onChunkError
                  /\ chunks' = SubSeq(chunks, n + 1, Len(chunks))
                  /\ \A d \in Listed :
                        Dequeued(d) <=> \E i \in 1..n : chunks[i] = d]_vars
    /\ [](\A c, d \in Listed :
            (c < d /\ requests[d] >= 1) =>
                requests[c] + calls.onChunkGiveUp[c] >= 1)

\* C15 witness: a failed chunk waits at the back of the queue behind a chunk
\* listed after it, while another chunk listed after it has been requested.
C15_Witness ==
    /\ completing = {}
    /\ Len(chunks) >= 2
    /\ LET c == chunks[Len(chunks)]
       IN  /\ calls.onChunkError[c] >= 1
           /\ chunks[1] > c
           /\ \E d \in inflight : d > c

\* C16: with the chunk list supplied, the call issues requests for the first
\* min(N, K) chunks only, leaves the others queued in list order and handles
\* no response.
C16_StartupFanOut ==
    [][phase = "new" /\ phase' = "running" =>
         /\ AfterStartup(Len(keyOf))
         /\ Total(requests') = Min(Len(keyOf), settings.concurrentDownloadsMax)
         /\ completing' = {}]_vars

\* C16 witness: startup over a supplied list longer than the cap.
C16_Witness ==
    /\ phase = "running"
    /\ fetches = 0
    /\ Cardinality(Listed) > settings.concurrentDownloadsMax
    /\ Total(requests) = settings.concurrentDownloadsMax
    /\ Len(chunks) = Cardinality(Listed) - settings.concurrentDownloadsMax
    /\ Responses = 0

\* The failure counter of key k, 0 when the key has no entry.
Failures(k) == IF k \in DOMAIN chunkFailures THEN chunkFailures[k] ELSE 0

\* C17: a failure counter has no entry before the first failed request of its
\* key, a failed request of a chunk with that key adds exactly 1 to it (1 for
\* the first), and no other step changes it.
C17_FailureCounter ==
    /\ [](\A k \in DOMAIN chunkFailures : chunkFailures[k] >= 1)
    /\ [][\A k \in Keys :
            IF \E c \in Listed : /\ keyOf[c] = k
                                 /\ calls'.onChunkError[c] # calls.onChunkError[c]
            THEN /\ k \in DOMAIN chunkFailures'
                 /\ chunkFailures'[k] = Failures(k) + 1
            ELSE /\ k \in DOMAIN chunkFailures' <=> k \in DOMAIN chunkFailures
                 /\ k \in DOMAIN chunkFailures =>
                       chunkFailures'[k] = chunkFailures[k]]_vars

\* C17 witness: a key has failed twice and keeps its count after a give-up
\* and a success of another chunk.
C17_Witness ==
    /\ \E k \in DOMAIN chunkFailures : chunkFailures[k] >= 2
    /\ Total(calls.onChunkGiveUp) >= 1
    /\ Total(calls.onChunkSuccess) >= 1
    /\ Drained

\* The array settings.chunks refers to is the queue: start makes this.chunks
\* an alias of it, and the settings hold the caller's array, not a copy.
\* C18 as stated: no step changes a field of the settings, nor the array
\* that settings.chunks refers to.
C18_Original ==
    [][/\ settings' = settings
       /\ settings.chunks # NULL => chunks' = chunks]_vars

\* C18, amended: no step changes a field of the settings other than chunks;
\* settings.chunks is assigned once, by the success callback of the
\* chunk-list fetch, and only when it was null; the array it refers to
\* (the caller's list when one was supplied) is the queue and changes only
\* by losing elements at its front and by a failed chunk being appended.
C18_SettingsFrame ==
    [][/\ \A f \in DOMAIN settings \ {"chunks"} : settings'[f] = settings[f]
       /\ settings'.chunks # settings.chunks =>
            /\ phase = "fetching" /\ phase' = "running"
            /\ settings.chunks = NULL
            /\ settings'.chunks # NULL
       /\ (settings.chunks # NULL /\ chunks' # chunks) =>
            \/ \E n \in 1..Len(chunks) :
                  chunks' = SubSeq(chunks, n + 1, Len(chunks))
            \/ \E c \in Listed : chunks' = Append(chunks, c)]_vars

\* C18 witness: the list the caller supplied has been emptied by the run.
C18_Witness ==
    /\ Drained
    /\ fetches = 0
    /\ settings.chunks # NULL
    /\ settings.chunksUrl # NULL
    /\ Len(keyOf) = MaxChunks
    /\ Total(calls.onChunkError) >= 1

\* C19: with chunks and chunksUrl both supplied (and the required settings
\* present) the call does not throw and starts the downloads over the
\* supplied list; the chunk list is fetched only when no chunks were given.
C19_SuppliedChunksWin ==
    /\ [][(/\ phase = "new"
           /\ settings.url # NULL /\ settings.onChunkComplete # NULL
           /\ settings.chunks # NULL /\ settings.chunksUrl # NULL
           /\ phase' # phase) =>
              /\ phase' = "running"
              /\ fetches' = 0
              /\ keyOf' = keyOf
              /\ AfterStartup(Len(keyOf))]_vars
    /\ [][fetches' # fetches => settings.chunks = NULL]_vars

\* C19 witness: a run over a supplied list with a chunksUrl in the settings.
C19_Witness ==
    /\ phase = "running"
    /\ settings.chunks # NULL
    /\ settings.chunksUrl # NULL
    /\ fetches = 0
    /\ Total(requests) >= 1
    /\ calls.onChunkComplete >= 1

\* C20: onFinished has been invoked once for each of the
\* concurrentDownloadsMax download cycles that is not waiting for a
\* response, so never more than concurrentDownloadsMax times and exactly
\* that often once the run has drained; no downloadChunk call returns at
\* the cap test; over an empty list all invocations happen during startup.
C20_FinishedPerCycle ==
    /\ [](/\ calls.onFinished <= settings.concurrentDownloadsMax
          /\ calls.capReturns = 0
          /\ phase = "running" =>
                calls.onFinished + concurrentDownloads =
                    settings.concurrentDownloadsMax
          /\ Drained => calls.onFinished = settings.concurrentDownloadsMax)
    /\ [][(phase # "running" /\ phase' = "running" /\ keyOf' = <<>>) =>
              calls'.onFinished = settings.concurrentDownloadsMax]_vars

\* C20 witness: a run with more chunks than cycles has drained after a
\* failure and a give-up.
C20_Witness ==
    /\ Drained
    /\ settings.concurrentDownloadsMax = MaxCap
    /\ calls.onFinished = MaxCap
    /\ Len(keyOf) > MaxCap
    /\ Total(calls.onChunkGiveUp) >= 1
    /\ Total(calls.onChunkSuccess) >= 1

\* C21: a chunk taken from the queue is passed to onChunkGiveUp exactly when
\* the counter stored under its first element exceeds maxDownloadRetries,
\* and is requested otherwise; every chunk that has been given up has itself
\* been requested, and has itself failed, maxDownloadRetries + 1 times.
C21_GiveUpByOwnFailures ==
    /\ [][\A c \in DOMAIN keyOf' :
            /\ calls'.onChunkGiveUp[c] # calls.onChunkGiveUp[c] =>
                  exceedsRetries(chunkFailures, keyOf'[c],
                                 settings.maxDownloadRetries)
            /\ requests'[c] # requests[c] =>
                  ~exceedsRetries(chunkFailures, keyOf'[c],
                                  settings.maxDownloadRetries)]_vars
    /\ [](\A c \in Listed :
            calls.onChunkGiveUp[c] >= 1 =>
                /\ requests[c] >= settings.maxDownloadRetries + 1
                /\ calls.onChunkError[c] >= settings.maxDownloadRetries + 1)

\* C22: also after a second call on the same object, concurrentDownloads
\* stays between 0 and concurrentDownloadsMax, no more than
\* concurrentDownloadsMax chunks of the second call are in flight, and once
\* everything has drained every chunk of the first call has been requested
\* or given up.
C22_RunsDoNotInterfere ==
    /\ concurrentDownloads \in 0..settings.concurrentDownloadsMax
    /\ Cardinality(inflight \ earlier) <= settings.concurrentDownloadsMax
    /\ Drained =>
          \A c \in earlier : requests[c] + calls.onChunkGiveUp[c] >= 1

\* C23: a call whose onChunkComplete is a string is not rejected (with the
\* other required settings present it starts as usual and raises nothing);
\* 'The callback must be a function' is raised only in a complete callback,
\* where onChunkComplete would be invoked; that callback has decremented the
\* counter, invokes no hook and neither requests nor dequeues a chunk.
C23_HookCheckedOnInvocation ==
    /\ [][(/\ phase = "new"
           /\ settings.onChunkComplete = "string"
           /\ settings.url # NULL
           /\ settings.chunks # NULL
           /\ phase' # phase) =>
              /\ phase' = "running"
              /\ AfterStartup(Len(keyOf))]_vars
    /\ [][calls'.thrown # calls.thrown =>
              /\ settings.onChunkComplete = "string"
              /\ completing # {} /\ completing' = {}
              /\ calls' = [calls EXCEPT !.thrown = @ + 1]
              /\ concurrentDownloads' = concurrentDownloads - 1
              /\ requests' = requests
              /\ chunks' = chunks]_vars
    /\ [][(completing # {} /\ completing' = {}
              /\ settings.onChunkComplete = "string") =>
              calls'.thrown = calls.thrown + 1]_vars

\* C23 witness: every request of a run with a string onChunkComplete has
\* ended in the error, and the chunks behind them are left in the queue.
C23_Witness ==
    /\ phase = "running"
    /\ settings.onChunkComplete = "string"
    /\ settings.concurrentDownloadsMax = MaxCap
    /\ calls.thrown = MaxCap
    /\ concurrentDownloads = 0
    /\ inflight = {}
    /\ chunks # <<>>
    /\ calls.onFinished = 0

====
